---- MODULE Spec2Model ----
(***************************************************************************)
(* Model of package request of stream-http-go (src/pkg/request/request.go): *)
(* timeoutReader, internalTimeoutCopy, DoRequest and TimeoutCopy.           *)
(*                                                                          *)
(* One behaviour is one call, of TimeoutCopy (mode = "TC") or of DoRequest  *)
(* (mode = "DR").  The Go timer is modelled with the semantics of the       *)
(* time package the code was written for: Stop and Reset never drain the    *)
(* channel, and a fire is a non-blocking send on a channel of capacity 1.   *)
(*                                                                          *)
(* Time.  Every blocking operation (a Read, a Write, a wait on the          *)
(* transport, the modifier callback) gets a duration class when it starts:  *)
(* "fast" (shorter than the timeout), "slow" (at least the timeout) or      *)
(* "never" (it does not return).  The statements between two blocking       *)
(* operations take no time.  So a timer fires only while a slow or never    *)
(* operation is in progress with the timer armed (or after the call has     *)
(* returned), and such an operation cannot return by itself before the      *)
(* timer that was armed for all of it has fired.                            *)
(*                                                                          *)
(* The transport (net/http) is outside the repository.  It is modelled at   *)
(* its boundary: during client.Do it alternates waits on the network with   *)
(* Reads of the request body and reads the whole body before it returns a   *)
(* response; "cooperative" says whether its blocked operations observe the  *)
(* cancellation of the request's context.                                   *)
(***************************************************************************)
EXTENDS Integers, Sequences, FiniteSets, TLC

\* ------------------------------------------------------------------ bounds

\* largest number of bytes one Read returns (at most chunkSize in the code)
MaxRead == 2
\* largest number of Read calls of one copy loop
MaxReads == 2
\* largest number of Reads the transport makes of the request body
MaxUpReads == 2

\* ------------------------------------------------------------------ values

Nil == "nil"
EOF == "EOF"
ErrRead == "ErrRead"
ErrWrite == "ErrWrite"
ErrShortWrite == "ErrShortWrite"
ErrorCopyTimeout == "ErrorCopyTimeout"
ErrCanceled == "ErrCanceled"
ErrTransport == "ErrTransport"
ErrNewRequest == "ErrNewRequest"
ErrSyntax == "ErrSyntax"
ErrRange == "ErrRange"
ErrUnexpectedEOF == "ErrUnexpectedEOF"

\* what a Read may return beside its byte count
ReadErrs == {Nil, EOF, ErrRead}
\* what a Write may return beside its byte count
WriteErrs == {Nil, ErrWrite}
\* values a Read or a Write may panic with
PanicVals == {"p1", "p2"}
\* duration classes of a blocking operation
OpKinds == {"fast", "slow", "never"}
\* request methods, as far as DoRequest tells them apart
Methods == {"HEAD", "POST"}

\* A header value is a sequence of characters, each a string of length 1.
DigitSeq == << "0", "1", "2", "3", "4", "5", "6", "7", "8", "9" >>
DigitChars == {DigitSeq[i] : i \in 1..10}
DigitVals == [c \in DigitChars |-> (CHOOSE i \in 1..10 : DigitSeq[i] = c) - 1]
DigitVal(c) == DigitVals[c]

\* short header values: numbers with and without a sign or a leading zero,
\* and a value that is no number
ShortHeaders ==
    { << "0" >>, << "2" >>, << "4" >>, << "0", "4" >>, << "+", "4" >>, << "-", "4" >>,
      << "-", "0" >>, << "4", "x" >> }

\* 2^63 and 2^64 - 1 in decimal: the bounds of strconv.ParseInt(s, 10, 64)
Int64Cutoff ==
    << "9", "2", "2", "3", "3", "7", "2", "0", "3", "6", "8", "5", "4", "7", "7", "5",
       "8", "0", "8" >>
Uint64Max ==
    << "1", "8", "4", "4", "6", "7", "4", "4", "0", "7", "3", "7", "0", "9", "5", "5",
       "1", "6", "1", "5" >>

\* long header values: 2^63 - 1, 2^63, -2^63 - 1, 2^64, and 4 written with
\* twenty leading zeros
LongHeaders ==
    { [Int64Cutoff EXCEPT ![19] = "7"],
      Int64Cutoff,
      << "-" >> \o [Int64Cutoff EXCEPT ![19] = "9"],
      [Uint64Max EXCEPT ![20] = "6"],
      [i \in 1..21 |-> IF i = 21 THEN "4" ELSE "0"] }

\* the values resp.Header.Get("Content-Length") may return; the empty one
\* stands for a response without the header
ContentLengths ==
    {<< >>} \cup ShortHeaders \cup LongHeaders

VARIABLES
    mode,          \* "TC": a TimeoutCopy call, "DR": a DoRequest call
    timer,         \* [made, armed, c]: the *time.Timer; c = values buffered in timer.C
    fires,         \* how often the timer has fired
    op,            \* duration class of the blocking operation in progress
    opFires,       \* how often the timer has fired during that operation
    boundedSlow,   \* some operation on the bounded side of the copy was slow or never
    unboundedSlow, \* some operation on the other side of the copy was slow or never
    writeTimeout,  \* the writeTimeout argument of the copy loop
    lpc,           \* position of the copy loop / of the worker goroutine
    reads,         \* Read calls made by the loop
    nr, er,        \* result of the last Read
    written, err,  \* named results of internalTimeoutCopy
    sunk,          \* bytes the sink has reported as written
    wres,          \* [n, e, of, rd]: result of the last Write, of the `of' bytes
                   \* that Read number rd returned
    complete,      \* bytes of the chunks the sink has written in full
    readSum,       \* bytes the Reads of the loop have returned
    panicVal,      \* value the worker recovered
    cpc,           \* the caller of TimeoutCopy: "select", "returned", "panicked"
    ret,           \* what TimeoutCopy returned / re-panicked with
    took,          \* the select case the caller took
    doneClosed,    \* doneChan is closed
    waitingAtPanic,\* the caller was in its select when the worker panicked
    firesAtTake,   \* fires that had happened when the caller's select took a case
    timerAtRet,    \* the timer as TimeoutCopy left it when its caller's select took a case
    lateOp,        \* the worker has called Read or Write after TimeoutCopy had ended
    conf,          \* [timeout, body, sink, mod]: the arguments of DoRequest
    cooperative,   \* the transport observes the cancellation of the context
    wrapped,       \* the request body is a timeoutReader
    ctxBy,         \* who cancelled the derived context: "none", "timer", "defer"
    parentCancelled, \* the caller's context is cancelled
    dpc,           \* position of DoRequest
    tpc,           \* position of the transport inside client.Do
    upReads,       \* Reads of the request body
    upEOF,         \* the request body has returned EOF
    upStalled,     \* a Read of the request body was slow or never
    waitStalled,   \* the transport was slow between or after Reads of the body
    firedInCall,   \* the timer fired before DoRequest returned
    firedInCopy,   \* the timer fired while the response body was copied
    firedAt,       \* the positions of DoRequest at which the timer has fired
    doRet,         \* [resp, err]: what client.Do returned
    dret           \* [resp, err, method, cl]: what DoRequest returned

timeVars == << timer, fires, op, opFires, boundedSlow, unboundedSlow >>
loopVars == << writeTimeout, lpc, reads, nr, er, written, err, sunk, wres, complete,
              readSum >>
tcVars == << panicVal, cpc, ret, took, doneClosed, waitingAtPanic, firesAtTake, timerAtRet,
            lateOp >>
drVars == << conf, cooperative, wrapped, ctxBy, parentCancelled, dpc, tpc, upReads,
             upEOF, upStalled, waitStalled, firedInCall, firedInCopy, firedAt, doRet, dret >>

vars == << mode, timeVars, loopVars, tcVars, drVars >>

\* ------------------------------------------------------------------ timer

\* time.Timer.Reset: arms the timer; the channel is left as it is
TimerReset(t) == [t EXCEPT !.armed = TRUE]

\* time.Timer.Stop: disarms the timer; the channel is left as it is
TimerStop(t) == [t EXCEPT !.armed = FALSE]

\* the runtime firing a timer made by NewTimer: a non-blocking send on timer.C
TimerSend(t) == [t EXCEPT !.armed = FALSE, !.c = 1]

\* the runtime firing a timer made by AfterFunc: the function runs, no channel
TimerCall(t) == [t EXCEPT !.armed = FALSE]

\* <-timer.C
TimerRecv(t) == [t EXCEPT !.c = 0]

\* a blocking operation of class k may return by itself
CanReturn(k, t) == k = "fast" \/ (k = "slow" /\ ~t.armed)

\* the derived context of DoRequest is done
CtxDone == ctxBy # "none" \/ parentCancelled

\* a blocked operation of the transport returns because the context is done
Interrupted == mode = "DR" /\ cooperative /\ CtxDone

\* ---------------------------------------------------------- timeoutReader

\* a Read that delegates with the timer running
ReaderBeforeReadNoStop(t) == t

\* line 48: Read stops the timer before it delegates
ReaderBeforeRead(t) == TimerStop(t)

\* a Read that leaves the timer as the delegated Read left it
ReaderAfterReadNoReset(t) == t

\* line 50: Read resets the timer when the delegated Read has returned
ReaderAfterRead(t) == TimerReset(t)

\* ------------------------------------------------- internalTimeoutCopy

\* the read side never armed
ArmBeforeReadNever(t, wt) == t

\* the read side armed whichever side is bounded
ArmBeforeReadAlways(t, wt) == TimerReset(t)

\* the read side left armed
DisarmAfterReadNever(t, wt) == t

\* lines 58-60
ArmBeforeRead(t, wt) == IF ~wt THEN TimerReset(t) ELSE t

\* lines 62-64
DisarmAfterRead(t, wt) == IF ~wt THEN TimerStop(t) ELSE t

\* the write side armed under the wrong flag
ArmBeforeWriteWrongSide(t, wt) == IF ~wt THEN TimerReset(t) ELSE t

\* lines 66-68
ArmBeforeWrite(t, wt) == IF wt THEN TimerReset(t) ELSE t

\* lines 70-72
DisarmAfterWrite(t, wt) == IF wt THEN TimerStop(t) ELSE t

\* end-of-data reported as an error
ReadEndErrKeepsEOF(e) == e

\* lines 85-90: the error the loop ends with after a Read that returned e
ReadEndErr(e) == IF e # EOF THEN e ELSE Nil

\* the count of the last Write instead of the sum
AddWrittenLast(w, n) == IF n > 0 THEN n ELSE w

\* lines 73-75
AddWritten(w, n) == IF n > 0 THEN w + n ELSE w

\* a short Write that reports no error accepted
WriteEndErrIgnoresShort(r, n, e) == e

\* the short-write check made before the check of the Write's error
WriteEndErrShortFirst(r, n, e) == IF r # n THEN ErrShortWrite ELSE e

\* lines 76-83: the error a Write that returned (n, e) for r bytes ends the loop with
WriteEndErr(r, n, e) == IF e # Nil THEN e ELSE IF r # n THEN ErrShortWrite ELSE Nil

\* no Write has returned yet
NoWrite == [n |-> 0, e |-> Nil, of |-> 0, rd |-> 0]

\* the copy runs with a timer (internalTimeoutCopy) or without (io.Copy, line 181)
Timed(t, u) == IF t.made THEN u ELSE t

\* lines 57-61: top of the loop, up to the call of src.Read
LoopTop ==
    /\ lpc = "top"
    /\ reads < MaxReads
    /\ \E k \in OpKinds :
         /\ op' = k
         /\ boundedSlow' = (boundedSlow \/ (~writeTimeout /\ k # "fast"))
         /\ unboundedSlow' = (unboundedSlow \/ (writeTimeout /\ k # "fast"))
    /\ timer' = Timed(timer, ArmBeforeRead(timer, writeTimeout))
    /\ opFires' = 0
    /\ reads' = reads + 1
    /\ lpc' = "reading"
    /\ lateOp' = (lateOp \/ (mode = "TC" /\ cpc # "select"))
    /\ UNCHANGED << mode, fires, writeTimeout, nr, er, written, err, sunk, wres, complete,
                    readSum, panicVal, cpc, ret, took,
                    doneClosed, waitingAtPanic, firesAtTake, timerAtRet, drVars >>

\* lines 61-69 and 85-90: src.Read returns (n, e); with n > 0 up to the call
\* of dst.Write, otherwise to the end of the iteration
ReadReturn ==
    /\ lpc = "reading"
    /\ (CanReturn(op, timer) \/ Interrupted)
    /\ \E n \in 0..MaxRead, e \in ReadErrs \cup {ErrCanceled} :
         /\ IF Interrupted THEN n = 0 /\ e = ErrCanceled ELSE e \in ReadErrs
         /\ (reads = MaxReads => e # Nil)
         /\ nr' = n
         /\ er' = e
         /\ readSum' = readSum + n
         /\ IF n > 0
            THEN /\ timer' = Timed(timer, ArmBeforeWrite(DisarmAfterRead(timer, writeTimeout), writeTimeout))
                 /\ \E k \in OpKinds :
                      /\ op' = k
                      /\ boundedSlow' = (boundedSlow \/ (writeTimeout /\ k # "fast"))
                      /\ unboundedSlow' = (unboundedSlow \/ (~writeTimeout /\ k # "fast"))
                 /\ opFires' = 0
                 /\ lpc' = "writing"
                 /\ lateOp' = (lateOp \/ (mode = "TC" /\ cpc # "select"))
                 /\ UNCHANGED err
            ELSE /\ timer' = Timed(timer, DisarmAfterRead(timer, writeTimeout))
                 /\ op' = "none"
                 /\ UNCHANGED << boundedSlow, unboundedSlow, opFires, lateOp >>
                 /\ IF e # Nil
                    THEN /\ err' = ReadEndErr(e)
                         /\ lpc' = "ret"
                    ELSE /\ lpc' = "top"
                         /\ UNCHANGED err
    /\ UNCHANGED << mode, fires, writeTimeout, reads, written, sunk, wres, complete, panicVal, cpc, ret, took,
                    doneClosed, waitingAtPanic, firesAtTake, timerAtRet, drVars >>

\* lines 69-90: dst.Write returns (n, e), to the end of the iteration
WriteReturn ==
    /\ lpc = "writing"
    /\ CanReturn(op, timer)
    /\ \E n \in 0..nr, e \in WriteErrs :
         /\ timer' = Timed(timer, DisarmAfterWrite(timer, writeTimeout))
         /\ written' = AddWritten(written, n)
         /\ sunk' = sunk + n
         /\ wres' = [n |-> n, e |-> e, of |-> nr, rd |-> reads]
         /\ complete' = IF n = nr THEN complete + n ELSE complete
         /\ IF WriteEndErr(nr, n, e) # Nil
            THEN /\ err' = WriteEndErr(nr, n, e)
                 /\ lpc' = "ret"
            ELSE IF er # Nil
                 THEN /\ err' = ReadEndErr(er)
                      /\ lpc' = "ret"
                 ELSE /\ lpc' = "top"
                      /\ UNCHANGED err
    /\ op' = "none"
    /\ UNCHANGED << mode, fires, opFires, boundedSlow, unboundedSlow, writeTimeout,
                    reads, nr, er, readSum, tcVars, drVars >>

\* ------------------------------------------------------------ TimeoutCopy

\* the timer case returning the worker's running count with the timeout error
TimeoutBranchKeepsCount(w) == [kind |-> "return", written |-> w, err |-> ErrorCopyTimeout]

\* lines 262-264: the timer case of the caller's select; w is the worker's count
TimeoutBranch(w) == [kind |-> "return", written |-> 0, err |-> ErrorCopyTimeout]

\* the result case dropping the count when the loop ended with an error
ResultBranchZeroOnError(w, e) ==
    [kind |-> "return", written |-> IF e # Nil THEN 0 ELSE w, err |-> e]

\* the result case losing the worker's error
ResultBranchDropsErr(w, e) == [kind |-> "return", written |-> w, err |-> Nil]

\* lines 259-261: the result case of the caller's select
ResultBranch(w, e) == [kind |-> "return", written |-> w, err |-> e]

\* the panic case re-panicking with a value of its own
PanicBranchOtherValue(p) == [kind |-> "panic", value |-> IF p = "p1" THEN "p2" ELSE "p1"]

\* the panic case turned into an ordinary return
PanicBranchSwallows(p) == [kind |-> "return", written |-> 0, err |-> Nil]

\* lines 257-258: the panic case of the caller's select
PanicBranch(p) == [kind |-> "panic", value |-> p]

\* doneChan left open when TimeoutCopy ends
CloseDoneNever(closed) == closed

\* line 224: the deferred close(doneChan), run when TimeoutCopy returns or
\* re-panics
CloseDone(closed) == TRUE

\* the runtime fires the timer of TimeoutCopy (made by NewTimer, line 229)
TimerFire ==
    /\ mode = "TC"
    /\ timer.armed
    /\ op \in {"slow", "never"}
    /\ timer' = TimerSend(timer)
    /\ fires' = fires + 1
    /\ opFires' = opFires + 1
    /\ UNCHANGED << mode, op, boundedSlow, unboundedSlow, loopVars, tcVars, drVars >>

\* lines 235-243: src.Read or dst.Write panics in the worker; the deferred
\* function recovers the value and offers it on panicChan
WorkerPanic ==
    /\ mode = "TC"
    /\ lpc \in {"reading", "writing"}
    /\ CanReturn(op, timer)
    /\ \E p \in PanicVals : panicVal' = p
    /\ lpc' = "panic"
    /\ op' = "none"
    /\ waitingAtPanic' = (cpc = "select")
    /\ UNCHANGED << mode, timer, fires, opFires, boundedSlow, unboundedSlow, writeTimeout,
                    reads, nr, er, written, err, sunk, wres, complete, readSum, cpc, ret, took, doneClosed,
                    firesAtTake, timerAtRet, lateOp, drVars >>

\* lines 238-241 and 250-253: the worker finds doneChan closed and gives up
WorkerAbandon ==
    /\ mode = "TC"
    /\ lpc \in {"ret", "panic"}
    /\ doneClosed
    /\ lpc' = "exited"
    /\ UNCHANGED << mode, timeVars, writeTimeout, reads, nr, er, written, err, sunk, wres, complete, readSum,
                    tcVars, drVars >>

\* lines 256-258: the caller receives from panicChan and re-panics
CallerPanic ==
    /\ mode = "TC"
    /\ cpc = "select"
    /\ lpc = "panic"
    /\ ret' = PanicBranch(panicVal)
    /\ took' = "panic"
    /\ firesAtTake' = fires
    /\ timerAtRet' = timer
    /\ cpc' = "panicked"
    /\ lpc' = "exited"
    /\ doneClosed' = CloseDone(doneClosed)
    /\ UNCHANGED << mode, timeVars, writeTimeout, reads, nr, er, written, err, sunk, wres, complete, readSum,
                    panicVal, waitingAtPanic, lateOp, drVars >>

\* lines 256, 259-261, 267: the caller receives from copyResultChan
CallerResult ==
    /\ mode = "TC"
    /\ cpc = "select"
    /\ lpc = "ret"
    /\ ret' = ResultBranch(written, err)
    /\ took' = "result"
    /\ firesAtTake' = fires
    /\ timerAtRet' = timer
    /\ cpc' = "returned"
    /\ lpc' = "exited"
    /\ doneClosed' = CloseDone(doneClosed)
    /\ UNCHANGED << mode, timeVars, writeTimeout, reads, nr, er, written, err, sunk, wres, complete, readSum,
                    panicVal, waitingAtPanic, lateOp, drVars >>

\* lines 256, 262-264, 267: the caller receives from timer.C
CallerTimeout ==
    /\ mode = "TC"
    /\ cpc = "select"
    /\ timer.c > 0
    /\ timer' = TimerRecv(timer)
    /\ ret' = TimeoutBranch(written)
    /\ took' = "timer"
    /\ firesAtTake' = fires
    /\ timerAtRet' = TimerRecv(timer)
    /\ cpc' = "returned"
    /\ doneClosed' = CloseDone(doneClosed)
    /\ UNCHANGED << mode, fires, op, opFires, boundedSlow, unboundedSlow, loopVars,
                    panicVal, waitingAtPanic, lateOp, drVars >>

\* -------------------------------------------------------------- DoRequest

\* a timer made whatever the timeout is
MakeTimerAlways(hasTimeout) == [made |-> TRUE, armed |-> TRUE, c |-> 0]

\* lines 145-148: the timer of DoRequest, armed at once when there is a timeout
MakeTimer(hasTimeout) == [made |-> hasTimeout, armed |-> hasTimeout, c |-> 0]

\* lines 150-154: the request body is wrapped when there is a body and a timer
WrapBody(hasBody, t) == hasBody /\ t.made

\* a cancel that replaces an earlier one
CancelOverwrites(by, who) == who

\* line 143 (and the timer's function, line 147): cancel() on a context that
\* who cancelled first keeps
Cancel(by, who) == IF by = "none" THEN who ELSE by

\* a > b for two numbers written in decimal without leading zeros
GreaterDigits(a, b) ==
    \/ Len(a) > Len(b)
    \/ /\ Len(a) = Len(b)
       /\ \E i \in 1..Len(a) :
            /\ \A j \in 1..(i - 1) : a[j] = b[j]
            /\ DigitVal(a[i]) > DigitVal(b[i])

\* strconv.ParseUint(s, 10, 64) from character i on, acc being the digits read
\* so far without leading zeros: a character that is no digit is a syntax
\* error, a value above 2^64 - 1 a range error
RECURSIVE ScanDigits(_, _, _)
ScanDigits(s, i, acc) ==
    IF i > Len(s) THEN [err |-> Nil, mag |-> acc]
    ELSE IF s[i] \notin DigitChars THEN [err |-> ErrSyntax, mag |-> << >>]
    ELSE LET next == IF acc = << >> /\ s[i] = "0" THEN acc ELSE Append(acc, s[i])
         IN  IF GreaterDigits(next, Uint64Max) THEN [err |-> ErrRange, mag |-> << >>]
             ELSE ScanDigits(s, i + 1, next)

\* line 191: strconv.ParseInt(s, 10, 64).  The result is [err, neg, mag]: the
\* error, the sign, and the magnitude in decimal without leading zeros (the
\* empty sequence for 0).
ParseInt(s) ==
    LET neg == Len(s) > 0 /\ s[1] = "-"
        signed == Len(s) > 0 /\ s[1] \in {"+", "-"}
        body == IF signed THEN Tail(s) ELSE s
        u == IF body = << >> THEN [err |-> ErrSyntax, mag |-> << >>]
             ELSE ScanDigits(body, 1, << >>)
    IN  IF u.err # Nil THEN [err |-> u.err, neg |-> FALSE, mag |-> << >>]
        ELSE IF ~neg /\ ~GreaterDigits(Int64Cutoff, u.mag)
             THEN [err |-> ErrRange, neg |-> FALSE, mag |-> << >>]
        ELSE IF neg /\ GreaterDigits(u.mag, Int64Cutoff)
             THEN [err |-> ErrRange, neg |-> FALSE, mag |-> << >>]
        ELSE [err |-> Nil, neg |-> neg /\ u.mag # << >>, mag |-> u.mag]

\* the count n, which is not negative, in decimal without leading zeros
RECURSIVE ToDigits(_)
ToDigits(n) == IF n = 0 THEN << >> ELSE Append(ToDigits(n \div 10), DigitSeq[(n % 10) + 1])

\* line 196: contentLength != nWritten, for a parsed value p and a count n
LengthDiffers(p, n) == p.neg \/ p.mag # ToDigits(n)

\* the Content-Length check left out for no method
ValidateErrAnyMethod(m, cl, n) ==
    IF Len(cl) > 0
    THEN LET p == ParseInt(cl)
         IN  IF p.err # Nil THEN p.err
             ELSE IF LengthDiffers(p, n) THEN ErrUnexpectedEOF ELSE Nil
    ELSE Nil

\* a response without the header taken for one that declares 0
ValidateErrAbsentIsZero(m, cl, n) ==
    IF m # "HEAD"
    THEN IF Len(cl) = 0 THEN (IF n # 0 THEN ErrUnexpectedEOF ELSE Nil)
         ELSE LET p == ParseInt(cl)
              IN  IF p.err # Nil THEN p.err
                  ELSE IF LengthDiffers(p, n) THEN ErrUnexpectedEOF ELSE Nil
    ELSE Nil

\* only a body that is too short reported
ValidateErrOnlyShort(m, cl, n) ==
    IF m # "HEAD" /\ Len(cl) > 0
    THEN LET p == ParseInt(cl)
         IN  IF p.err # Nil THEN p.err
             ELSE IF ~p.neg /\ GreaterDigits(p.mag, ToDigits(n))
                  THEN ErrUnexpectedEOF ELSE Nil
    ELSE Nil

\* lines 187-201: the error the Content-Length check ends with, for method m,
\* header value cl and n bytes copied
ValidateErr(m, cl, n) ==
    IF m # "HEAD" /\ Len(cl) > 0
    THEN LET p == ParseInt(cl)
         IN  IF p.err # Nil THEN p.err
             ELSE IF LengthDiffers(p, n) THEN ErrUnexpectedEOF ELSE Nil
    ELSE Nil

\* the check made without a sink too
FinishErrChecksAlways(hasSink, m, cl, n) == ValidateErr(m, cl, n)

\* lines 176 and 186-204: the error DoRequest ends with when client.Do and the
\* copy, if there was one, have succeeded
FinishErr(hasSink, m, cl, n) == IF hasSink THEN ValidateErr(m, cl, n) ELSE Nil

\* the timer left running when client.Do has returned
StopAfterDoNever(t) == t

\* lines 168-170
StopAfterDo(t) == IF t.made THEN TimerStop(t) ELSE t

\* the error of client.Do ignored
DoFailedNever(e) == FALSE

\* line 171
DoFailed(e) == e # Nil

\* line 183
CopyFailed(e) == e # Nil

\* client.Do has not returned yet
NoDoRet == [resp |-> FALSE, err |-> "none"]

\* DoRequest has not returned yet.  from is the place DoRequest returned from:
\* "newrequest" (line 159), "do" (line 172), "copy" (line 184), "validate"
\* (lines 193, 198, 204, with a sink) or "nosink" (line 204, without one);
\* method is the request's method and cl the Content-Length header of the
\* response, on the paths that end at or after line 186.
NoDret == [resp |-> FALSE, err |-> "none", method |-> "none", cl |-> << >>, from |-> "none"]

\* the response lost on the way out
CopyErrReturnNoResp(e) == [NoDret EXCEPT !.resp = FALSE, !.err = e, !.from = "copy"]

\* lines 183-185: the copy failed with e; resp is the response of client.Do
CopyErrReturn(e) == [NoDret EXCEPT !.resp = TRUE, !.err = e, !.from = "copy"]

\* the transport starts to wait on the network, for a time of class k
BeginWait(k) ==
    /\ tpc' = "wait"
    /\ op' = k
    /\ opFires' = 0
    /\ waitStalled' = (waitStalled \/ (k # "fast" /\ wrapped /\ upReads > 0))

\* lines 137-167: the options, the context, the timer, the wrapped body, the
\* request; then the call of the modifier or, without one, of client.Do
DRBegin ==
    /\ mode = "DR"
    /\ dpc = "start"
    /\ timer' = MakeTimer(conf.timeout)
    /\ wrapped' = WrapBody(conf.body, MakeTimer(conf.timeout))
    /\ UNCHANGED << upReads >>
    /\ \/ /\ dpc' = "returned"
          /\ dret' = [NoDret EXCEPT !.err = ErrNewRequest, !.from = "newrequest"]
          /\ ctxBy' = Cancel(ctxBy, "defer")
          /\ UNCHANGED << op, opFires, tpc, waitStalled >>
       \/ /\ conf.mod
          /\ dpc' = "mod"
          /\ \E k \in OpKinds : op' = k
          /\ opFires' = 0
          /\ UNCHANGED << dret, ctxBy, tpc, waitStalled >>
       \/ /\ ~conf.mod
          /\ dpc' = "do"
          /\ \E k \in OpKinds : BeginWait(k)
          /\ UNCHANGED << dret, ctxBy >>
    /\ UNCHANGED << mode, fires, boundedSlow, unboundedSlow, loopVars, tcVars, conf,
                    cooperative, parentCancelled, upEOF, upStalled, firedInCall, firedInCopy, firedAt, doRet >>

\* lines 163-167: the modifier returns, client.Do is called
DRModReturn ==
    /\ mode = "DR"
    /\ dpc = "mod"
    /\ CanReturn(op, timer)
    /\ dpc' = "do"
    /\ \E k \in OpKinds : BeginWait(k)
    /\ UNCHANGED << mode, timer, fires, boundedSlow, unboundedSlow, loopVars, tcVars, conf,
                    cooperative, wrapped, ctxBy, parentCancelled, upReads, upEOF,
                    upStalled, firedInCall, firedInCopy, firedAt, doRet, dret >>

\* lines 47-49: the transport calls Read on the request body; a timeoutReader
\* stops the timer and delegates
TBodyRead ==
    /\ mode = "DR"
    /\ dpc = "do"
    /\ tpc = "wait"
    /\ conf.body
    /\ ~upEOF
    /\ upReads < MaxUpReads
    /\ CanReturn(op, timer)
    /\ ~Interrupted
    /\ timer' = IF wrapped THEN ReaderBeforeRead(timer) ELSE timer
    /\ \E k \in OpKinds :
         /\ op' = k
         /\ upStalled' = (upStalled \/ k # "fast")
    /\ opFires' = 0
    /\ upReads' = upReads + 1
    /\ tpc' = "bodyread"
    /\ UNCHANGED << mode, fires, boundedSlow, unboundedSlow, loopVars, tcVars, conf,
                    cooperative, wrapped, ctxBy, parentCancelled, dpc, upEOF,
                    waitStalled, firedInCall, firedInCopy, firedAt, doRet, dret >>

\* lines 49-51: the delegated Read returns data, EOF or an error; a
\* timeoutReader resets the timer
TBodyReadReturn ==
    /\ mode = "DR"
    /\ dpc = "do"
    /\ tpc = "bodyread"
    /\ CanReturn(op, timer)
    /\ timer' = IF wrapped THEN ReaderAfterRead(timer) ELSE timer
    /\ UNCHANGED << upReads, wrapped >>
    /\ \E r \in {"data", "EOF", "err"} :
         /\ (upReads = MaxUpReads => r # "data")
         /\ upEOF' = (r = "EOF")
         /\ IF r = "err"
            THEN /\ tpc' = "bodyerr"
                 /\ op' = "none"
                 /\ UNCHANGED << opFires, waitStalled >>
            ELSE \E k \in OpKinds : BeginWait(k)
    /\ UNCHANGED << mode, fires, boundedSlow, unboundedSlow, loopVars, tcVars, conf,
                    cooperative, ctxBy, parentCancelled, dpc, upStalled,
                    firedInCall, firedInCopy, firedAt, doRet, dret >>

\* lines 167-174: client.Do returns (r, e); the timer is stopped; an error is
\* returned with whatever response came with it.  A transport that was
\* interrupted or could not read the request body returns no response; any
\* other failure may come with one (net/http: when CheckRedirect fails).
DRDoReturn ==
    /\ mode = "DR"
    /\ dpc = "do"
    /\ tpc \in {"wait", "bodyerr"}
    /\ (CanReturn(op, timer) \/ Interrupted \/ tpc = "bodyerr")
    /\ timer' = StopAfterDo(timer)
    /\ op' = "none"
    /\ tpc' = "idle"
    /\ \E r \in BOOLEAN, e \in {Nil, ErrTransport, ErrCanceled} :
         /\ e = ErrCanceled <=> Interrupted
         /\ e = Nil => (r /\ tpc = "wait" /\ (conf.body => upEOF))
         /\ (e = ErrCanceled \/ tpc = "bodyerr") => ~r
         /\ doRet' = [resp |-> r, err |-> e]
         /\ IF DoFailed(e)
            THEN /\ dpc' = "returned"
                 /\ dret' = [NoDret EXCEPT !.resp = r, !.err = e, !.from = "do"]
                 /\ ctxBy' = Cancel(ctxBy, "defer")
            ELSE /\ dpc' = "afterDo"
                 /\ UNCHANGED << dret, ctxBy >>
    /\ UNCHANGED << mode, fires, opFires, boundedSlow, unboundedSlow, loopVars, tcVars, conf,
                    cooperative, wrapped, parentCancelled, upReads, upEOF, upStalled,
                    waitStalled, firedInCall, firedInCopy, firedAt >>

\* lines 176-182 and 204: without a sink DoRequest returns the response; with
\* one the copy of the response body begins
DRCopyBegin ==
    /\ mode = "DR"
    /\ dpc = "afterDo"
    /\ IF conf.sink
       THEN /\ dpc' = "copy"
            /\ lpc' = "top"
            /\ UNCHANGED << dret, ctxBy >>
       ELSE /\ dpc' = "returned"
            /\ \E m \in Methods, cl \in ContentLengths :
                 dret' = [resp |-> TRUE, err |-> FinishErr(FALSE, m, cl, 0),
                          method |-> m, cl |-> cl, from |-> "nosink"]
            /\ ctxBy' = Cancel(ctxBy, "defer")
            /\ UNCHANGED lpc
    /\ UNCHANGED << mode, timeVars, writeTimeout, reads, nr, er, written, err, sunk, wres, complete, readSum, tcVars,
                    conf, cooperative, wrapped, parentCancelled, tpc, upReads, upEOF,
                    upStalled, waitStalled, firedInCall, firedInCopy, firedAt, doRet >>

\* lines 183-204: the copy has returned; its error is returned, or the
\* Content-Length of the response is checked
DRCopyReturn ==
    /\ mode = "DR"
    /\ dpc = "copy"
    /\ lpc = "ret"
    /\ lpc' = "exited"
    /\ dpc' = "returned"
    /\ ctxBy' = Cancel(ctxBy, "defer")
    /\ IF CopyFailed(err)
       THEN dret' = CopyErrReturn(err)
       ELSE \E m \in Methods, cl \in ContentLengths :
              dret' = [resp |-> TRUE, err |-> FinishErr(TRUE, m, cl, written),
                       method |-> m, cl |-> cl, from |-> "validate"]
    /\ UNCHANGED << mode, timeVars, writeTimeout, reads, nr, er, written, err, sunk, wres, complete, readSum, tcVars,
                    conf, cooperative, wrapped, parentCancelled, tpc, upReads, upEOF,
                    upStalled, waitStalled, firedInCall, firedInCopy, firedAt, doRet >>

\* the runtime fires the timer of DoRequest (made by AfterFunc, line 147):
\* cancel runs
DRTimerFire ==
    /\ mode = "DR"
    /\ timer.armed
    /\ (op \in {"slow", "never"} \/ dpc = "returned")
    /\ timer' = TimerCall(timer)
    /\ fires' = fires + 1
    /\ opFires' = opFires + 1
    /\ ctxBy' = Cancel(ctxBy, "timer")
    /\ firedInCall' = (firedInCall \/ dpc # "returned")
    /\ firedInCopy' = (firedInCopy \/ dpc = "copy")
    /\ firedAt' = firedAt \cup {dpc}
    /\ UNCHANGED << mode, op, boundedSlow, unboundedSlow, loopVars, tcVars, conf, cooperative,
                    wrapped, parentCancelled, dpc, tpc, upReads, upEOF, upStalled,
                    waitStalled, doRet, dret >>

\* the caller of DoRequest cancels its own context during the call
ParentCancel ==
    /\ mode = "DR"
    /\ dpc # "returned"
    /\ ~parentCancelled
    /\ parentCancelled' = TRUE
    /\ UNCHANGED << mode, timeVars, loopVars, tcVars, conf, cooperative, wrapped, ctxBy,
                    dpc, tpc, upReads, upEOF, upStalled, waitStalled, firedInCall, firedInCopy, firedAt, doRet, dret >>

\* ------------------------------------------------------------------ system

NoRet == [kind |-> "none"]

\* what both kinds of call start from
InitCommon ==
    /\ fires = 0
    /\ op = "none"
    /\ opFires = 0
    /\ boundedSlow = FALSE
    /\ unboundedSlow = FALSE
    /\ reads = 0
    /\ nr = 0
    /\ er = Nil
    /\ written = 0
    /\ err = Nil
    /\ sunk = 0
    /\ wres = NoWrite
    /\ complete = 0
    /\ readSum = 0
    /\ panicVal = "none"
    /\ ret = NoRet
    /\ took = "none"
    /\ doneClosed = FALSE
    /\ waitingAtPanic = FALSE
    /\ firesAtTake = 0
    /\ timerAtRet = [made |-> FALSE, armed |-> FALSE, c |-> 0]
    /\ lateOp = FALSE
    /\ wrapped = FALSE
    /\ ctxBy = "none"
    /\ parentCancelled = FALSE
    /\ tpc = "idle"
    /\ upReads = 0
    /\ upEOF = FALSE
    /\ upStalled = FALSE
    /\ waitStalled = FALSE
    /\ firedInCall = FALSE
    /\ firedInCopy = FALSE
    /\ firedAt = {}
    /\ doRet = NoDoRet
    /\ dret = NoDret

\* TimeoutCopy after lines 223-254: the channels made, the timer made, stopped
\* and drained, the worker started, the caller at its select
InitTC ==
    /\ mode = "TC"
    /\ timer = [made |-> TRUE, armed |-> FALSE, c |-> 0]
    /\ writeTimeout \in BOOLEAN
    /\ lpc = "top"
    /\ cpc = "select"
    /\ conf = [timeout |-> FALSE, body |-> FALSE, sink |-> FALSE, mod |-> FALSE]
    /\ cooperative = FALSE
    /\ dpc = "none"

\* DoRequest at its entry
InitDR ==
    /\ mode = "DR"
    /\ timer = [made |-> FALSE, armed |-> FALSE, c |-> 0]
    /\ writeTimeout = FALSE
    /\ lpc = "idle"
    /\ cpc = "none"
    /\ conf \in [timeout : BOOLEAN, body : BOOLEAN, sink : BOOLEAN, mod : BOOLEAN]
    /\ cooperative \in BOOLEAN
    /\ dpc = "start"

Init == InitCommon /\ (InitTC \/ InitDR)

Next ==
    \/ LoopTop
    \/ ReadReturn
    \/ WriteReturn
    \/ TimerFire
    \/ WorkerPanic
    \/ WorkerAbandon
    \/ CallerPanic
    \/ CallerResult
    \/ CallerTimeout
    \/ DRBegin
    \/ DRModReturn
    \/ TBodyRead
    \/ TBodyReadReturn
    \/ DRDoReturn
    \/ DRCopyBegin
    \/ DRCopyReturn
    \/ DRTimerFire
    \/ ParentCancel

Spec == Init /\ [][Next]_vars

\* the caller of TimeoutCopy at its select, lines 256-265
CallerSelect == CallerPanic \/ CallerResult \/ CallerTimeout

\* The runtime fires a timer that is due, and the goroutine of the caller runs
\* when a case of its select is ready.
FairSpec == Spec /\ WF_vars(TimerFire) /\ WF_vars(CallerSelect)

\* one call of TimeoutCopy alone: the steps of the worker, of the caller and
\* of the timer
TimeoutCopyNext ==
    \/ LoopTop
    \/ ReadReturn
    \/ WriteReturn
    \/ TimerFire
    \/ WorkerPanic
    \/ WorkerAbandon
    \/ CallerPanic
    \/ CallerResult
    \/ CallerTimeout

\* TimeoutCopy at the select of its caller
TimeoutCopyInit == InitCommon /\ InitTC

\* the calls of TimeoutCopy, with the fairness of FairSpec
TimeoutCopyFairSpec ==
    /\ TimeoutCopyInit
    /\ [][TimeoutCopyNext]_vars
    /\ WF_vars(TimerFire)
    /\ WF_vars(CallerSelect)

\* The goroutine of the worker, too, runs when a case of its select is ready.
WorkerFairSpec == TimeoutCopyFairSpec /\ WF_vars(WorkerAbandon)

\* ------------------------------------------------------------------ claims

TimeoutRet == [kind |-> "return", written |-> 0, err |-> ErrorCopyTimeout]

\* C1: a call of TimeoutCopy that has ended has ended in exactly one of three
\* ways: it returned the pair the worker handed over, it returned
\* (0, ErrorCopyTimeout) after receiving a fire of the timer, or it re-panicked
\* with the value the worker recovered; ErrorCopyTimeout is returned exactly
\* when the caller consumed a fire, and then with a zero count.
C1_ExactlyOneOutcome ==
    (mode = "TC" /\ cpc # "select") =>
        /\ \/ /\ took = "result"
              /\ cpc = "returned"
              /\ panicVal = "none"
              /\ ret = [kind |-> "return", written |-> written, err |-> err]
           \/ /\ took = "timer"
              /\ cpc = "returned"
              /\ firesAtTake > 0
              /\ ret = TimeoutRet
           \/ /\ took = "panic"
              /\ cpc = "panicked"
              /\ ret = [kind |-> "panic", value |-> panicVal]
        /\ ret.kind = "return" => (ret.err = ErrorCopyTimeout <=> took = "timer")

\* C1 witness: the timeout was returned although the worker had finished its
\* loop with bytes written
C1_Witness ==
    /\ mode = "TC"
    /\ took = "timer"
    /\ lpc = "exited"
    /\ panicVal = "none"
    /\ written > 0
    /\ ret = TimeoutRet

\* C2 (as claimed): a panic raised in the worker while the caller was waiting
\* in its select is re-raised by the caller with the same value, whatever the
\* timer does
C2_PanicNeverLost ==
    (mode = "TC" /\ panicVal # "none" /\ waitingAtPanic /\ cpc # "select") =>
        ret = [kind |-> "panic", value |-> panicVal]

\* C2 (amended): a panic raised in the worker while the caller was waiting in
\* its select is re-raised by the caller with the same value, unless the
\* caller's select receives a fire of the timer instead and returns
\* (0, ErrorCopyTimeout); it is never replaced by a worker result or by
\* another value
C2_PanicOrTimeout ==
    (mode = "TC" /\ panicVal # "none" /\ waitingAtPanic /\ cpc # "select") =>
        \/ ret = [kind |-> "panic", value |-> panicVal]
        \/ took = "timer" /\ firesAtTake > 0 /\ ret = TimeoutRet

\* C2 witness: the caller re-panicked with the worker's value although a fire
\* of the timer was pending, after bytes had been written
C2_Witness ==
    /\ mode = "TC"
    /\ waitingAtPanic
    /\ cpc = "panicked"
    /\ ret = [kind |-> "panic", value |-> panicVal]
    /\ timer.c > 0
    /\ sunk > 0

C4_WorkerFirstReturnsPair ==
    (mode = "TC" /\ cpc # "select" /\ panicVal = "none"
        /\ lpc \in {"ret", "exited"} /\ fires = 0) =>
            /\ ret = [kind |-> "return", written |-> written, err |-> err]
            /\ ret.err # ErrorCopyTimeout

\* C4 witness: a pair with bytes and an error was returned, no timer fire
C4_Witness ==
    /\ mode = "TC"
    /\ cpc = "returned"
    /\ took = "result"
    /\ fires = 0
    /\ ret.written > 0
    /\ ret.err = ErrShortWrite

\* a Write on the bounded write side that never returns is in progress
HungWrite == mode = "TC" /\ writeTimeout /\ lpc = "writing" /\ op = "never"

\* C5: with writeTimeout = true, once a Write that never returns has begun,
\* TimeoutCopy eventually returns (0, ErrorCopyTimeout), the worker still
\* being inside that Write
C5_HungWriteTimesOut ==
    [](HungWrite => <>(HungWrite /\ cpc = "returned" /\ ret = TimeoutRet))

\* C5 witness: TimeoutCopy has returned the timeout while the Write hangs
C5_Witness == HungWrite /\ cpc = "returned" /\ ret = TimeoutRet

C7_UploadReadStallCancels ==
    (mode = "DR" /\ dpc = "returned" /\ conf.timeout /\ conf.body /\ upStalled
        /\ cooperative /\ ~parentCancelled) =>
            /\ firedInCall
            /\ ctxBy = "timer"
            /\ dret.err # Nil
            /\ sunk = 0

\* C7 (amended): while the request body is inside a Read the timer of
\* DoRequest is disarmed, so a stall inside a Read does not fire it; when the
\* transport has stalled for the timeout or longer between two Reads of the
\* body or after the last one (transport observing cancellation, caller not
\* cancelling), the timer has fired and cancelled the context, and DoRequest
\* returns an error, no response and no response body
C7_UploadGapStallCancels ==
    /\ (mode = "DR" /\ tpc = "bodyread" /\ wrapped) => (~timer.armed /\ opFires = 0)
    /\ (mode = "DR" /\ dpc = "returned" /\ conf.timeout /\ conf.body /\ waitStalled
            /\ cooperative /\ ~parentCancelled) =>
                /\ firedInCall
                /\ ctxBy = "timer"
                /\ dret.err # Nil
                /\ ~dret.resp
                /\ sunk = 0

\* C7 witness: a Read of the body stalled without a fire, then the transport
\* stalled after it, the timer fired and DoRequest returned the cancellation
C7_Witness ==
    /\ mode = "DR"
    /\ dpc = "returned"
    /\ upStalled
    /\ waitStalled
    /\ cooperative
    /\ ~parentCancelled
    /\ fires = 1
    /\ ctxBy = "timer"
    /\ dret.err = ErrCanceled

\* C8: DoRequest with a timeout and a sink, a transport that observes
\* cancellation and a caller that does not cancel: when a Read of the response
\* body has lasted the timeout or longer, the timer has fired once during it
\* and cancelled the context, and DoRequest returns an error
C8_ResponseStallCancels ==
    /\ (mode = "DR" /\ dpc = "copy") => opFires <= 1
    /\ (mode = "DR" /\ dpc = "returned" /\ conf.timeout /\ conf.sink /\ boundedSlow
            /\ cooperative /\ ~parentCancelled) =>
                /\ firedInCopy
                /\ opFires = 1
                /\ ctxBy = "timer"
                /\ dret.err # Nil

\* C8 witness: the second Read of the response body stalled, after bytes had
\* been copied, and DoRequest returned the cancellation with the response
C8_Witness ==
    /\ mode = "DR"
    /\ dpc = "returned"
    /\ conf.timeout
    /\ boundedSlow
    /\ cooperative
    /\ ~parentCancelled
    /\ reads = 2
    /\ sunk > 0
    /\ fires = 1
    /\ dret.resp
    /\ dret.err = ErrCanceled

\* C9 (as claimed): DoRequest does not return a nil error when its timer has
\* fired during the call
C9_NoSuccessAfterFire ==
    (mode = "DR" /\ dpc = "returned" /\ firedInCall) => dret.err # Nil

\* C10: without a positive timeout DoRequest makes no timer and does not wrap
\* the request body; it does not cancel the derived context before it returns;
\* and it returns no cancellation error unless the caller cancelled
C10_NoTimeoutNoTimer ==
    (mode = "DR" /\ ~conf.timeout) =>
        /\ ~timer.made
        /\ ~timer.armed
        /\ fires = 0
        /\ ~wrapped
        /\ dpc # "returned" => ctxBy = "none"
        /\ dpc = "returned" => ctxBy = "defer"
        /\ (dpc = "returned" /\ ~parentCancelled) => dret.err # ErrCanceled

\* C10 witness: DoRequest without a timeout has returned no error after a
\* slow Read of the request body, a slow Read of the response body and a slow
\* Write to the sink
C10_Witness ==
    /\ mode = "DR"
    /\ ~conf.timeout
    /\ conf.body
    /\ conf.sink
    /\ dpc = "returned"
    /\ upStalled
    /\ boundedSlow
    /\ unboundedSlow
    /\ written > 0
    /\ dret.resp
    /\ dret.err = Nil

\* a header value that is a decimal numeral of a positive integer
DeclaresPositive(cl) ==
    /\ Len(cl) > 0
    /\ \A i \in 1..Len(cl) : cl[i] \in DigitChars
    /\ \E i \in 1..Len(cl) : cl[i] # "0"

\* a numeral without its leading zeros
RECURSIVE StripZeros(_)
StripZeros(cl) == IF cl # << >> /\ Head(cl) = "0" THEN StripZeros(Tail(cl)) ELSE cl

\* DoRequest has returned from the Content-Length check of a request that is
\* not a HEAD request
CheckedReturn == mode = "DR" /\ dpc = "returned" /\ dret.from = "validate" /\ dret.method # "HEAD"

\* C11 (as claimed): after a successful client.Do and a successful copy into
\* a sink, for a method other than HEAD and a response that declares a
\* positive integer L as its Content-Length, DoRequest returns no error when L
\* equals the number of bytes copied and io.ErrUnexpectedEOF for every other L
C11_MismatchIsUnexpectedEOF ==
    (CheckedReturn /\ DeclaresPositive(dret.cl)) =>
        dret.err = IF StripZeros(dret.cl) = ToDigits(written) THEN Nil ELSE ErrUnexpectedEOF

\* C11 (amended): as C11 for every L up to 2^63 - 1; for a larger L the parse
\* of the header fails and DoRequest returns the range error of
\* strconv.ParseInt, with the response
C11_MismatchOrRange ==
    (CheckedReturn /\ DeclaresPositive(dret.cl)) =>
        /\ dret.resp
        /\ dret.err = IF ~GreaterDigits(Int64Cutoff, StripZeros(dret.cl)) THEN ErrRange
                      ELSE IF StripZeros(dret.cl) = ToDigits(written) THEN Nil
                      ELSE ErrUnexpectedEOF

\* C11 witness: a response that declares 2 after 4 bytes were copied in two
\* chunks: io.ErrUnexpectedEOF
C11_Witness ==
    /\ CheckedReturn
    /\ dret.cl = << "2" >>
    /\ written = 4
    /\ reads = 2
    /\ dret.err = ErrUnexpectedEOF

\* C12: after a successful client.Do and a successful copy, when the response
\* declares no Content-Length, DoRequest returns no error, whatever the number
\* of bytes copied
C12_NoLengthNoCheck ==
    (mode = "DR" /\ dpc = "returned" /\ dret.from = "validate" /\ dret.cl = << >>) =>
        /\ dret.resp
        /\ dret.err = Nil

\* C12 witness: no Content-Length, bytes copied in two chunks, no error
C12_Witness ==
    /\ CheckedReturn
    /\ dret.cl = << >>
    /\ written > MaxRead
    /\ dret.err = Nil

\* C13: for a HEAD request DoRequest makes no Content-Length check: after a
\* successful copy it returns no error whatever the response declares, and
\* when no byte was copied the sink is empty
C13_HeadNoCheck ==
    (mode = "DR" /\ dpc = "returned" /\ dret.from = "validate" /\ dret.method = "HEAD") =>
        /\ dret.resp
        /\ dret.err = Nil
        /\ written = 0 => sunk = 0

\* C13 witness: a HEAD request, a response that declares 4, no byte copied
C13_Witness ==
    /\ mode = "DR"
    /\ dpc = "returned"
    /\ dret.from = "validate"
    /\ dret.method = "HEAD"
    /\ dret.cl = << "4" >>
    /\ written = 0
    /\ sunk = 0
    /\ dret.err = Nil

\* C14: without a sink, DoRequest after a successful client.Do reads nothing
\* of the response body, writes nothing, makes no Content-Length check and
\* returns the response with a nil error, whatever the response declares
C14_NoSinkNoCopy ==
    (mode = "DR" /\ ~conf.sink /\ doRet.err = Nil) =>
        /\ reads = 0
        /\ wres = NoWrite
        /\ sunk = 0
        /\ lpc = "idle"
        /\ dpc \in {"afterDo", "returned"}
        /\ dpc = "returned" => (dret.resp /\ dret.err = Nil /\ dret.from = "nosink")

\* C14 witness: no sink, a request that is not HEAD, a Content-Length that is
\* no number, the response returned with a nil error
C14_Witness ==
    /\ mode = "DR"
    /\ ~conf.sink
    /\ dpc = "returned"
    /\ dret.method = "POST"
    /\ dret.cl = << "4", "x" >>
    /\ dret.resp
    /\ dret.err = Nil

C16_TransportErrorReturned ==
    (mode = "DR" /\ doRet.err \notin {"none", Nil}) =>
        /\ dpc = "returned"
        /\ dret = [NoDret EXCEPT !.resp = doRet.resp, !.err = doRet.err, !.from = "do"]
        /\ lpc = "idle"
        /\ reads = 0
        /\ wres = NoWrite
        /\ written = 0
        /\ sunk = 0

\* C16 witness: client.Do failed after the request body was read, with a
\* sink supplied
C16_Witness ==
    /\ mode = "DR"
    /\ conf.sink
    /\ conf.body
    /\ upEOF
    /\ dpc = "returned"
    /\ doRet.err = ErrTransport
    /\ dret.err = ErrTransport

\* the copy loop (internalTimeoutCopy) has ended by its return statement
LoopEnded == timer.made /\ lpc \in {"ret", "exited"} /\ panicVal = "none"

\* the last Write was short and reported no error
ShortWrite == timer.made /\ wres.e = Nil /\ wres.n # wres.of

\* the last Write, if any, took its whole chunk and reported no error
FullWrite == wres.e = Nil /\ wres.n = wres.of

\* C17 (as claimed): when the loop has ended with io.ErrShortWrite, the count
\* it returns is the sum of the chunks written in full before; the bytes of
\* the short Write are not in it
C17_ShortWriteNotCounted ==
    (LoopEnded /\ err = ErrShortWrite) => written = complete

\* C17 (amended): a Write that takes fewer bytes than offered and reports no
\* error ends the loop at once with io.ErrShortWrite (no further Read or
\* Write); the count returned is the sum of the chunks written in full before
\* plus the bytes the short Write reported
C17_ShortWriteStopsLoop ==
    ShortWrite =>
        /\ LoopEnded
        /\ err = ErrShortWrite
        /\ wres.rd = reads
        /\ written = complete + wres.n
        /\ written = sunk

\* C17 witness: a chunk written in full, then a short Write of one byte
C17_Witness ==
    /\ ShortWrite
    /\ lpc = "ret"
    /\ complete > 0
    /\ wres.n > 0
    /\ written = complete + wres.n

\* C18: when the Reads of the loop have ended with end-of-data and the sink
\* has taken every byte, the loop returns the sum of the bytes read and a nil
\* error, whichever side is bounded, and TimeoutCopy returns the same when its
\* timer has not fired; a Read of 0 bytes with no error causes no Write and
\* does not end the loop
C18_CopiesAllBytes ==
    /\ (LoopEnded /\ er = EOF /\ FullWrite) =>
            /\ err = Nil
            /\ written = readSum
            /\ sunk = readSum
    /\ (LoopEnded /\ er = EOF /\ FullWrite /\ mode = "TC" /\ fires = 0 /\ cpc = "returned") =>
            ret = [kind |-> "return", written |-> readSum, err |-> Nil]
    /\ (timer.made /\ lpc = "writing") => nr > 0
    /\ (LoopEnded /\ FullWrite) => er # Nil

\* C18 witness: TimeoutCopy bounded on the write side; the first Read
\* returned 0 bytes and no error, the second the data with end-of-data; one
\* Write; the sum returned
C18_Witness ==
    /\ mode = "TC"
    /\ writeTimeout
    /\ cpc = "returned"
    /\ reads = 2
    /\ readSum = nr
    /\ nr > 0
    /\ er = EOF
    /\ ret = [kind |-> "return", written |-> nr, err |-> Nil]

\* C19: when the last Read of the loop returned n > 0 bytes with end-of-data
\* or an error, the loop has ended only after the Write of those n bytes; when
\* that Write took them all without error the loop ends with a nil error for
\* end-of-data and with the error of the Read otherwise
C19_FinalDataWritten ==
    (LoopEnded /\ nr > 0 /\ er # Nil) =>
        /\ wres.rd = reads
        /\ wres.of = nr
        /\ FullWrite => /\ err = (IF er = EOF THEN Nil ELSE er)
                        /\ written = readSum
                        /\ sunk = readSum

\* C19 witness: the second Read returned data with an error; the data were
\* written and the loop ended with that error
C19_Witness ==
    /\ LoopEnded
    /\ reads = 2
    /\ nr > 0
    /\ er = ErrRead
    /\ FullWrite
    /\ err = ErrRead
    /\ written = readSum
    /\ written > nr

\* C20: when a Write of the loop has returned an error, the loop has ended
\* with exactly that error and has issued no further Read or Write, also when
\* that Write was short and when the Read before it had returned an error or
\* end-of-data with its data
C20_WriteErrorEndsLoop ==
    (timer.made /\ wres.e # Nil) =>
        /\ LoopEnded
        /\ err = wres.e
        /\ wres.rd = reads

\* C20 witness: the Read returned data with an error of its own, the Write
\* of the data was short and returned an error
C20_Witness ==
    /\ LoopEnded
    /\ wres.e = ErrWrite
    /\ wres.n < wres.of
    /\ er = ErrRead
    /\ err = ErrWrite

\* C21: when the loop has ended with a read error, a write error or a short
\* write and TimeoutCopy has returned that result, the count returned is the
\* number of bytes the sink has reported as written, and the error is the
\* loop's
C21_PartialCountKept ==
    (mode = "TC" /\ cpc = "returned" /\ took = "result" /\ err # Nil) =>
        /\ err \in {ErrRead, ErrWrite, ErrShortWrite}
        /\ ret.written = sunk
        /\ ret.err = err

\* C21 witness: a chunk written in full, then a Write that took part of its
\* chunk and returned an error; TimeoutCopy returned the count of both
C21_Witness ==
    /\ mode = "TC"
    /\ cpc = "returned"
    /\ took = "result"
    /\ ret.err = ErrWrite
    /\ complete > 0
    /\ wres.n > 0
    /\ ret.written = complete + wres.n

\* C22: in the copy loop the timer is armed only while an operation of the
\* bounded side is in progress: it is disarmed, and does not fire, during
\* every Write with writeTimeout = false and during every Read with
\* writeTimeout = true; and TimeoutCopy returns a timeout only when an
\* operation of the bounded side has lasted the timeout
C22_OtherSideUnbounded ==
    /\ (timer.made /\ lpc = "writing" /\ ~writeTimeout) => (~timer.armed /\ opFires = 0)
    /\ (timer.made /\ lpc = "reading" /\ writeTimeout) => (~timer.armed /\ opFires = 0)
    /\ (timer.armed /\ panicVal = "none" /\ (mode = "TC" \/ dpc = "copy")) =>
            \/ lpc = "reading" /\ ~writeTimeout
            \/ lpc = "writing" /\ writeTimeout
    /\ (mode = "TC" /\ took = "timer") => boundedSlow

\* C22 witness: TimeoutCopy bounded on the read side, the second Write never
\* returns, the timer has not fired and TimeoutCopy has not returned
C22_Witness ==
    /\ mode = "TC"
    /\ ~writeTimeout
    /\ lpc = "writing"
    /\ op = "never"
    /\ reads = 2
    /\ sunk > 0
    /\ fires = 0
    /\ ~timer.armed
    /\ cpc = "select"

C24_FiresOnlyInDoOrCopy ==
    mode = "DR" => firedAt \subseteq {"do", "copy"}

C26_StoppedOnEveryReturn ==
    (mode = "DR" /\ conf.timeout /\ dpc = "returned") => ~timer.armed

\* C27 (as claimed): when TimeoutCopy returns, by the result or by the
\* timeout, its timer is disarmed and no fire is left in the timer's channel
C27_TimerQuietAtReturn ==
    (mode = "TC" /\ cpc = "returned") => (~timerAtRet.armed /\ timerAtRet.c = 0)

\* C28 (as claimed): during a call of TimeoutCopy the timer is never armed
\* while a fire of an earlier arming is still in its channel
C28_NoResetOverPendingFire ==
    (mode = "TC" /\ cpc = "select") => ~(timer.armed /\ timer.c > 0)

\* C29: DoRequest has cancelled its derived context when it returns, on every
\* path; a context once cancelled, by the timer or by DoRequest, stays as it
\* was cancelled; and no step of DoRequest or of its timer cancels the context
\* of the caller
C29_DerivedContextCancelled ==
    [][/\ dpc' = "returned" => ctxBy' # "none"
       /\ ctxBy # "none" => ctxBy' = ctxBy
       /\ ctxBy' # ctxBy => ctxBy' \in {"timer", "defer"}
       /\ parentCancelled' # parentCancelled => ParentCancel]_vars

\* C29 witness: the timer cancelled the context during client.Do, DoRequest
\* went on to the end of the Content-Length check and returned; the context
\* is still the one the timer cancelled, the caller's is not cancelled
C29_Witness ==
    /\ mode = "DR"
    /\ dpc = "returned"
    /\ dret.from = "validate"
    /\ "do" \in firedAt
    /\ ctxBy = "timer"
    /\ ~parentCancelled

\* C30 (as claimed): once TimeoutCopy has ended, the worker calls no further
\* Read or Write: it ends when the call it is in returns
C30_NoOpAfterReturn ==
    (mode = "TC" /\ cpc # "select") => ~lateOp

\* C30 (amended): the worker does not block on handing over: when its loop
\* has ended or panicked after TimeoutCopy has ended, the worker exits, and
\* what TimeoutCopy returned is not changed by it
C30_WorkerNeverStuck ==
    /\ (mode = "TC" /\ cpc # "select" /\ lpc \in {"ret", "panic"}) ~> (lpc = "exited")
    /\ [][cpc # "select" => (ret' = ret /\ cpc' = cpc)]_vars

\* C30 witness: TimeoutCopy returned the timeout, the worker went on to Read
\* and Write, ended its loop and exited; the timeout is what was returned
C30_Witness ==
    /\ mode = "TC"
    /\ took = "timer"
    /\ lateOp
    /\ sunk > 0
    /\ lpc = "exited"
    /\ ret = TimeoutRet

====
